---- MODULE Spec2Model ----
(***************************************************************************)
(* A model of metar.py: the field normalizers, the record builder, the     *)
(* registry (conditionDict / stationList), and the render loop that writes *)
(* one colour per airport slot, the legend swatches, flushes the strip and *)
(* rotates the external display.                                           *)
(*                                                                         *)
(* Texts are sequences of one-character strings, so that float(), int(),   *)
(* str.find and str.replace are computed character by character.  Times    *)
(* (BLINK_SPEED, BLINK_TOTALTIME_SECONDS, DISPLAY_ROTATION_SPEED and       *)
(* displayTime) are integers counted in one common unit; their quotient is *)
(* the exact rational.  The wall-clock field obsTime is not modelled.      *)
(***************************************************************************)
EXTENDS Integers, Sequences, FiniteSets, TLC

(***************************************************************************)
(* Colour table, lines 51-64.                                              *)
(***************************************************************************)
COLOR_VFR == <<255, 0, 0>>
COLOR_VFR_FADE == <<125, 0, 0>>
COLOR_MVFR == <<0, 0, 255>>
COLOR_MVFR_FADE == <<0, 0, 125>>
COLOR_IFR == <<0, 255, 0>>
COLOR_IFR_FADE == <<0, 125, 0>>
COLOR_LIFR == <<0, 125, 125>>
COLOR_LIFR_FADE == <<0, 75, 75>>
COLOR_CLEAR == <<0, 0, 0>>
COLOR_LIGHTNING == <<255, 255, 255>>
COLOR_HIGH_WINDS == <<255, 255, 0>>
COLOR_NONE == <<64, 64, 64>>

(***************************************************************************)
(* Text literals the program compares against or uses as defaults.         *)
(***************************************************************************)
T_NULL == <<"N", "U", "L", "L">>
T_NONE == <<"N", "O", "N", "E">>
T_UNKNOWN == <<"U", "N", "K", "N", "O", "W", "N">>
T_VFR == <<"V", "F", "R">>
T_MVFR == <<"M", "V", "F", "R">>
T_IFR == <<"I", "F", "R">>
T_LIFR == <<"L", "I", "F", "R">>
T_LTG == <<"L", "T", "G">>
T_TS == <<"T", "S">>
T_TSNO == <<"T", "S", "N", "O">>

(***************************************************************************)
(* XML elements as metar.find() returns them: None, an element whose .text *)
(* is None, or an element with a text.                                     *)
(***************************************************************************)
NoElement == [found |-> FALSE, hasText |-> FALSE, text |-> <<>>]
NoTextElement == [found |-> TRUE, hasText |-> FALSE, text |-> <<>>]
El(t) == [found |-> TRUE, hasText |-> TRUE, text |-> t]

(***************************************************************************)
(* Python's float values: a finite value n/d (d a power of ten), an        *)
(* infinity, or NaN.                                                       *)
(***************************************************************************)
Fin(n, d) == [k |-> "fin", n |-> n, d |-> d]
Inf(s) == [k |-> "inf", n |-> s, d |-> 1]
NaN == [k |-> "nan", n |-> 0, d |-> 1]

(* The outcome of a Python expression: a value, or the exception raised.   *)
Ok(v) == [exc |-> "", val |-> v]
Raise(e) == [exc |-> e, val |-> 0]

Digits == <<"0", "1", "2", "3", "4", "5", "6", "7", "8", "9">>
IsDigit(c) == \E j \in 1..10 : Digits[j] = c
DigitVal(c) == (CHOOSE j \in 1..10 : Digits[j] = c) - 1

RECURSIVE DigitsValue(_)
DigitsValue(s) ==
    IF Len(s) = 0 THEN 0
    ELSE 10 * DigitsValue(SubSeq(s, 1, Len(s) - 1)) + DigitVal(s[Len(s)])

RECURSIVE Pow10(_)
Pow10(k) == IF k = 0 THEN 1 ELSE 10 * Pow10(k - 1)

AllDigits(s) == \A j \in 1..Len(s) : IsDigit(s[j])

Lower(c) ==
    CASE c = "I" -> "i" [] c = "N" -> "n" [] c = "F" -> "f" [] c = "A" -> "a"
      [] c = "T" -> "t" [] c = "Y" -> "y" [] OTHER -> c

LowerText(s) == [j \in 1..Len(s) |-> Lower(s[j])]

RECURSIVE StrNat(_)
StrNat(n) ==
    IF n < 10 THEN <<Digits[n + 1]>>
    ELSE StrNat(n \div 10) \o <<Digits[(n % 10) + 1]>>

(* str(n) of an int.                                                       *)
StrInt(n) == IF n < 0 THEN <<"-">> \o StrNat(-n) ELSE StrNat(n)

(***************************************************************************)
(* float(text) for texts made of digits, sign, '.', and letters: an        *)
(* optional sign, then "inf" / "infinity" / "nan" in any case, or digits   *)
(* with at most one '.', at least one digit.  Anything else is ValueError. *)
(* (Whitespace, exponents and underscores are outside the modelled texts.) *)
(***************************************************************************)
PyFloat(s) ==
    LET signed == Len(s) > 0 /\ s[1] \in {"+", "-"}
        sign == IF signed /\ s[1] = "-" THEN -1 ELSE 1
        body == IF signed THEN SubSeq(s, 2, Len(s)) ELSE s
        low == LowerText(body)
        dots == {j \in 1..Len(body) : body[j] = "."}
        dot == IF dots = {} THEN Len(body) + 1 ELSE CHOOSE j \in dots : TRUE
        ip == SubSeq(body, 1, dot - 1)
        fp == SubSeq(body, dot + 1, Len(body))
    IN  IF low = <<"i", "n", "f">>
           \/ low = <<"i", "n", "f", "i", "n", "i", "t", "y">>
        THEN Ok(Inf(sign))
        ELSE IF low = <<"n", "a", "n">> THEN Ok(NaN)
        ELSE IF Cardinality(dots) <= 1 /\ AllDigits(ip) /\ AllDigits(fp)
                /\ Len(ip) + Len(fp) > 0
        THEN Ok(Fin(sign * DigitsValue(ip \o fp), Pow10(Len(fp))))
        ELSE Raise("ValueError")

(***************************************************************************)
(* int(text): optional sign and digits only.                               *)
(***************************************************************************)
PyInt(s) ==
    LET signed == Len(s) > 0 /\ s[1] \in {"+", "-"}
        sign == IF signed /\ s[1] = "-" THEN -1 ELSE 1
        body == IF signed THEN SubSeq(s, 2, Len(s)) ELSE s
    IN  IF Len(body) > 0 /\ AllDigits(body)
        THEN Ok(sign * DigitsValue(body))
        ELSE Raise("ValueError")

(* The integer nearest n/d, ties to the even one (d > 0).                  *)
RoundHalfEven(n, d) ==
    LET q == n \div d
        r == n % d
    IN  IF 2 * r < d THEN q
        ELSE IF 2 * r > d THEN q + 1
        ELSE IF q % 2 = 0 THEN q ELSE q + 1

(***************************************************************************)
(* round(x) of a float: the nearest integer, OverflowError on an infinity, *)
(* ValueError on NaN.                                                      *)
(***************************************************************************)
PyRound(x) ==
    CASE x.k = "fin" -> Ok(RoundHalfEven(x.n, x.d))
      [] x.k = "inf" -> Raise("OverflowError")
      [] x.k = "nan" -> Raise("ValueError")

(* round(x, 2): a finite float to hundredths; inf and nan are returned.    *)
PyRound2(x) ==
    IF x.k = "fin" THEN Fin(RoundHalfEven(x.n * 100, x.d), 100) ELSE x

(* int(round(float(text)))                                                 *)
IntRoundFloat(s) ==
    LET f == PyFloat(s)
    IN  IF f.exc # "" THEN f ELSE PyRound(f.val)

(* str(x) of a float with an integral value, such as the default 0.0.      *)
StrFloat(x) ==
    CASE x.k = "inf" -> IF x.n < 0 THEN <<"-", "i", "n", "f">> ELSE <<"i", "n", "f">>
      [] x.k = "nan" -> <<"n", "a", "n">>
      [] OTHER -> StrInt(x.n \div x.d) \o <<".", "0">>

(***************************************************************************)
(* SAFE HELPERS, lines 21-39.                                              *)
(***************************************************************************)
safe_text(element, default) ==
    IF element.found /\ element.hasText THEN element.text ELSE default

safe_int(element, default) ==
    LET r == IntRoundFloat(safe_text(element, StrInt(default)))
    IN  IF r.exc \in {"ValueError", "TypeError"} THEN Ok(default) ELSE r

safe_float(element, default) ==
    LET r == PyFloat(safe_text(element, StrFloat(default)))
    IN  IF r.exc \in {"ValueError", "TypeError"} THEN Ok(default) ELSE r

(***************************************************************************)
(* State.  cfg holds the configuration block (lines 46-90) together with   *)
(* the two files read at start-up (airports, displayairports) and whether  *)
(* the displaymetar module could be imported; feed is the sequence of      *)
(* METAR elements the weather service answers with.  Neither changes.      *)
(***************************************************************************)
VARIABLES cfg, feed, pc, exc, conditionDict, stationList, m, disp, looplimit,
          windCycle, displayTime, displayAirportCounter, numAirports, a, i,
          pixels, strip, calls, shows, outputs, frames

vars == <<cfg, feed, pc, exc, conditionDict, stationList, m, disp, looplimit,
          windCycle, displayTime, displayAirportCounter, numAirports, a, i,
          pixels, strip, calls, shows, outputs>>

LED_COUNT == cfg.LED_COUNT
ACTIVATE_WINDCONDITION_ANIMATION == cfg.ACTIVATE_WINDCONDITION_ANIMATION
ACTIVATE_LIGHTNING_ANIMATION == cfg.ACTIVATE_LIGHTNING_ANIMATION
FADE_INSTEAD_OF_BLINK == cfg.FADE_INSTEAD_OF_BLINK
WIND_BLINK_THRESHOLD == cfg.WIND_BLINK_THRESHOLD
HIGH_WINDS_THRESHOLD == cfg.HIGH_WINDS_THRESHOLD
ALWAYS_BLINK_FOR_GUSTS == cfg.ALWAYS_BLINK_FOR_GUSTS
BLINK_SPEED == cfg.BLINK_SPEED
BLINK_TOTALTIME_SECONDS == cfg.BLINK_TOTALTIME_SECONDS
ACTIVATE_EXTERNAL_METAR_DISPLAY == cfg.ACTIVATE_EXTERNAL_METAR_DISPLAY
DISPLAY_ROTATION_SPEED == cfg.DISPLAY_ROTATION_SPEED
SHOW_LEGEND == cfg.SHOW_LEGEND
OFFSET_LEGEND_BY == cfg.OFFSET_LEGEND_BY
airports == cfg.airports
displayairports == cfg.displayairports
displaymetar == cfg.displaymetar

InSeq(x, s) == \E j \in 1..Len(s) : s[j] = x

(* displayairports is None (file missing), or the list read from the file. *)
NoDisplayFile == [isNone |-> TRUE, list |-> <<>>]
DisplayFile(l) == [isNone |-> FALSE, list |-> l]

(***************************************************************************)
(* str.find(sub, start): the lowest 0-based offset >= start at which sub   *)
(* occurs, or -1.                                                          *)
(***************************************************************************)
Find(s, sub, start) ==
    LET hits == {o \in start..(Len(s) - Len(sub)) :
                    SubSeq(s, o + 1, o + Len(sub)) = sub}
    IN  IF hits = {} THEN -1 ELSE CHOOSE o \in hits : \A h \in hits : o <= h

(* str.replace(c, '') for a one-character c.                               *)
RemoveChar(s, c) == SelectSeq(s, LAMBDA x : x # c)

(* The heuristic searching the whole text, station identifier included. *)
Lightning_WholeText(rawText) ==
    ~ ((Find(rawText, T_LTG, 0) = -1 /\ Find(rawText, T_TS, 0) = -1)
       \/ Find(rawText, T_TSNO, 0) # -1)

(* line 207 *)
Lightning(rawText) ==
    ~ ((Find(rawText, T_LTG, 4) = -1 /\ Find(rawText, T_TS, 4) = -1)
       \/ Find(rawText, T_TSNO, 4) # -1)

(* lines 178-185 *)
Visibility(el) ==
    IF el.found
    THEN LET r == IntRoundFloat(RemoveChar(safe_text(el, <<"0">>), "+"))
         IN  IF r.exc # "" THEN 0 ELSE r.val
    ELSE 0

(* An XML attribute as skyIter.get() returns it: None or a text.           *)
NoAttr == [has |-> FALSE, v |-> <<>>]
Attr(t) == [has |-> TRUE, v |-> t]

(* lines 198-203 *)
SkyCond(layer) ==
    LET base == layer.cloud_base_ft_agl
        cover == layer.sky_cover
        parsed == PyInt(base.v)
    IN  [cover |-> IF cover.has /\ cover.v # <<>> THEN cover.v ELSE <<>>,
         cloudBaseFt |-> IF base.has /\ base.v # <<>> /\ parsed.exc = ""
                         THEN parsed.val ELSE 0]

(* lines 196-204 *)
SkyConditions(layers) == [j \in 1..Len(layers) |-> SkyCond(layers[j])]

(***************************************************************************)
(* The body of the feed loop up to the dictionary store, lines 166-225:    *)
(* the record built from one METAR element, or the exception that escapes. *)
(***************************************************************************)
BuildRecord(metar) ==
    LET stationId == safe_text(metar.station_id, T_UNKNOWN)
        flightCategory == safe_text(metar.flight_category, T_NONE)
        windDir == safe_text(metar.wind_dir_degrees, <<>>)
        windSpeed == safe_int(metar.wind_speed_kt, 0)
        windGustSpeed == safe_int(metar.wind_gust_kt, 0)
        tempC == safe_int(metar.temp_c, 0)
        dewpointC == safe_int(metar.dewpoint_c, 0)
        altim == safe_float(metar.altim_in_hg, Fin(0, 1))
        raised == SelectSeq(<<windSpeed, windGustSpeed, tempC, dewpointC, altim>>,
                            LAMBDA r : r.exc # "")
    IN  IF raised # <<>> THEN Raise(raised[1].exc)
        ELSE Ok([stationId |-> stationId,
                 flightCategory |-> flightCategory,
                 windDir |-> windDir,
                 windSpeed |-> windSpeed.val,
                 windGustSpeed |-> windGustSpeed.val,
                 windGust |-> (ALWAYS_BLINK_FOR_GUSTS
                               \/ windGustSpeed.val > WIND_BLINK_THRESHOLD),
                 vis |-> Visibility(metar.visibility_statute_mi),
                 obs |-> safe_text(metar.wx_string, <<>>),
                 tempC |-> tempC.val,
                 dewpointC |-> dewpointC.val,
                 altimHg |-> PyRound2(altim.val),
                 lightning |-> Lightning(safe_text(metar.raw_text, <<>>)),
                 skyConditions |-> SkyConditions(metar.sky_condition)])

(* Placeholder with the category left empty instead of "NONE". *)
Placeholder_NoCategory(ap) ==
    [stationId |-> ap, flightCategory |-> <<>>, windDir |-> <<>>, windSpeed |-> 0,
     windGustSpeed |-> 0, windGust |-> FALSE, vis |-> 0, obs |-> <<>>, tempC |-> 0,
     dewpointC |-> 0, altimHg |-> Fin(0, 1), lightning |-> FALSE,
     skyConditions |-> <<>>]

(* Placeholder that keeps the gust flag set. *)
Placeholder_Gusty(ap) ==
    [stationId |-> ap, flightCategory |-> T_NONE, windDir |-> <<>>, windSpeed |-> 0,
     windGustSpeed |-> 0, windGust |-> TRUE, vis |-> 0, obs |-> <<>>, tempC |-> 0,
     dewpointC |-> 0, altimHg |-> Fin(0, 1), lightning |-> FALSE,
     skyConditions |-> <<>>]

(* lines 235-249 *)
Placeholder(ap) ==
    [stationId |-> ap,
     flightCategory |-> T_NONE,
     windDir |-> <<>>,
     windSpeed |-> 0,
     windGustSpeed |-> 0,
     windGust |-> FALSE,
     vis |-> 0,
     obs |-> <<>>,
     tempC |-> 0,
     dewpointC |-> 0,
     altimHg |-> Fin(0, 1),
     lightning |-> FALSE,
     skyConditions |-> <<>>]

(* conditionDict[key] = rec *)
Store(dict, key, rec) ==
    [x \in DOMAIN dict \cup {key} |-> IF x = key THEN rec ELSE dict[x]]

(* The validation with the comparison off by one. *)
TooManyAirports_OffByOne == Len(airports) > LED_COUNT + 1

(* line 147: the test that ends the run before the feed is fetched.        *)
TooManyAirports == Len(airports) > LED_COUNT

(* The tick budget with the quotient rounded up. *)
LoopLimit_Ceil ==
    IF ACTIVATE_WINDCONDITION_ANIMATION \/ ACTIVATE_LIGHTNING_ANIMATION
       \/ ACTIVATE_EXTERNAL_METAR_DISPLAY
    THEN (BLINK_TOTALTIME_SECONDS + BLINK_SPEED - 1) \div BLINK_SPEED
    ELSE 1

(* line 261 *)
LoopLimit ==
    IF ACTIVATE_WINDCONDITION_ANIMATION \/ ACTIVATE_LIGHTNING_ANIMATION
       \/ ACTIVATE_EXTERNAL_METAR_DISPLAY
    THEN RoundHalfEven(BLINK_TOTALTIME_SECONDS, BLINK_SPEED)
    ELSE 1

(***************************************************************************)
(* The colour decision for one airport slot, lines 275-329.  conditions is *)
(* [found, rec]: the result of conditionDict.get(airportcode, None).       *)
(***************************************************************************)
Windy(c, wc) ==
    ACTIVATE_WINDCONDITION_ANIMATION /\ wc
    /\ (c.windSpeed >= WIND_BLINK_THRESHOLD \/ c.windGust)

HighWinds(c, wc) ==
    Windy(c, wc) /\ HIGH_WINDS_THRESHOLD # -1
    /\ (c.windSpeed >= HIGH_WINDS_THRESHOLD \/ c.windGustSpeed >= HIGH_WINDS_THRESHOLD)

(* The lightning flag without the phase test. *)
LightningConditions_AnyPhase(c, wc) == ACTIVATE_LIGHTNING_ANIMATION /\ c.lightning

(* A lightning flash that happens on the first tick only. *)
LightningConditions_Once(c, wc) ==
    ACTIVATE_LIGHTNING_ANIMATION /\ ~wc /\ c.lightning /\ shows = 0

LightningConditions(c, wc) ==
    ACTIVATE_LIGHTNING_ANIMATION /\ ~wc /\ c.lightning

(* The branch with the fade colour used whatever FADE_INSTEAD_OF_BLINK is. *)
CategoryColor_AlwaysFade(c, wc, base, fade) ==
    IF LightningConditions(c, wc) THEN COLOR_LIGHTNING
    ELSE IF HighWinds(c, wc) THEN COLOR_HIGH_WINDS
    ELSE IF Windy(c, wc) THEN fade
    ELSE base

(* lines 292-327: one branch of the category dispatch *)
CategoryColor(c, wc, base, fade) ==
    IF LightningConditions(c, wc) THEN COLOR_LIGHTNING
    ELSE IF HighWinds(c, wc) THEN COLOR_HIGH_WINDS
    ELSE IF Windy(c, wc) THEN (IF FADE_INSTEAD_OF_BLINK THEN fade ELSE COLOR_CLEAR)
    ELSE base

(* The dispatch without the NONE short-circuit. *)
SlotColor_NoShortCircuit(dict, airportcode, wc) ==
    IF airportcode \notin DOMAIN dict THEN COLOR_CLEAR
    ELSE LET c == dict[airportcode]
             fc == c.flightCategory
         IN  IF fc = T_VFR THEN CategoryColor(c, wc, COLOR_VFR, COLOR_VFR_FADE)
             ELSE IF fc = T_MVFR THEN CategoryColor(c, wc, COLOR_MVFR, COLOR_MVFR_FADE)
             ELSE IF fc = T_IFR THEN CategoryColor(c, wc, COLOR_IFR, COLOR_IFR_FADE)
             ELSE IF fc = T_LIFR THEN CategoryColor(c, wc, COLOR_LIFR, COLOR_LIFR_FADE)
             ELSE COLOR_CLEAR

SlotColor(dict, airportcode, wc) ==
    IF airportcode \notin DOMAIN dict THEN COLOR_CLEAR
    ELSE LET c == dict[airportcode]
             fc == c.flightCategory
         IN  IF fc = T_NONE THEN COLOR_NONE
             ELSE IF fc = T_VFR THEN CategoryColor(c, wc, COLOR_VFR, COLOR_VFR_FADE)
             ELSE IF fc = T_MVFR THEN CategoryColor(c, wc, COLOR_MVFR, COLOR_MVFR_FADE)
             ELSE IF fc = T_IFR THEN CategoryColor(c, wc, COLOR_IFR, COLOR_IFR_FADE)
             ELSE IF fc = T_LIFR THEN CategoryColor(c, wc, COLOR_LIFR, COLOR_LIFR_FADE)
             ELSE COLOR_CLEAR

(***************************************************************************)
(* The pixel sink.  pixels[idx] = color is a call to the strip of          *)
(* LED_COUNT pixels (line 131); an index outside it raises IndexError.     *)
(* (No index is negative: i and OFFSET_LEGEND_BY are >= 0 in every run     *)
(* explored, so the sink's wrap-around of negative indices is not needed.) *)
(***************************************************************************)
InRange(idx) == idx \in 0..(LED_COUNT - 1)

(* A call made to the sink.  pos is the airports position the call renders *)
(* (0 for a legend swatch or a flush) and wc the value of windCycle when   *)
(* the call is made; both are bookkeeping for the properties below.        *)
Call(op, idx, color, pos, wc) ==
    [op |-> op, idx |-> idx, color |-> color, pos |-> pos, wc |-> wc]
SetCall(idx, color, wc) == Call("set", idx, color, 0, wc)

(* The legend with the high-wind swatch outside the wind-animation test. *)
LegendWrites_HighWindsAlone(base, wc) ==
    IF ~SHOW_LEGEND THEN <<>>
    ELSE <<SetCall(base, COLOR_VFR, wc),
           SetCall(base + 1, COLOR_MVFR, wc),
           SetCall(base + 2, COLOR_IFR, wc),
           SetCall(base + 3, COLOR_LIFR, wc)>>
         \o (IF ACTIVATE_LIGHTNING_ANIMATION
             THEN <<SetCall(base + 4, IF wc THEN COLOR_LIGHTNING ELSE COLOR_VFR, wc)>>
             ELSE <<>>)
         \o (IF ACTIVATE_WINDCONDITION_ANIMATION
             THEN <<SetCall(base + 5,
                            IF ~wc THEN COLOR_VFR
                            ELSE IF FADE_INSTEAD_OF_BLINK THEN COLOR_VFR_FADE
                            ELSE COLOR_CLEAR, wc)>>
             ELSE <<>>)
         \o (IF HIGH_WINDS_THRESHOLD # -1
             THEN <<SetCall(base + 6,
                            IF ~wc THEN COLOR_VFR ELSE COLOR_HIGH_WINDS, wc)>>
             ELSE <<>>)

(* The legend's assignments in program order, lines 336-346.               *)
LegendWrites(base, wc) ==
    IF ~SHOW_LEGEND THEN <<>>
    ELSE <<SetCall(base, COLOR_VFR, wc),
           SetCall(base + 1, COLOR_MVFR, wc),
           SetCall(base + 2, COLOR_IFR, wc),
           SetCall(base + 3, COLOR_LIFR, wc)>>
         \o (IF ACTIVATE_LIGHTNING_ANIMATION
             THEN <<SetCall(base + 4, IF wc THEN COLOR_LIGHTNING ELSE COLOR_VFR, wc)>>
             ELSE <<>>)
         \o (IF ACTIVATE_WINDCONDITION_ANIMATION
             THEN <<SetCall(base + 5,
                            IF ~wc THEN COLOR_VFR
                            ELSE IF FADE_INSTEAD_OF_BLINK THEN COLOR_VFR_FADE
                            ELSE COLOR_CLEAR, wc)>>
                  \o (IF HIGH_WINDS_THRESHOLD # -1
                      THEN <<SetCall(base + 6,
                                     IF ~wc THEN COLOR_VFR ELSE COLOR_HIGH_WINDS, wc)>>
                      ELSE <<>>)
             ELSE <<>>)

(* The assignments of ws that run: all of them, or up to and including the *)
(* first whose index is out of range.                                      *)
Executed(ws) ==
    LET bad == {j \in 1..Len(ws) : ~InRange(ws[j].idx)}
    IN  IF bad = {} THEN ws
        ELSE SubSeq(ws, 1, CHOOSE j \in bad : \A h \in bad : j <= h)

RECURSIVE Apply(_, _)
Apply(px, ws) ==
    IF ws = <<>> THEN px
    ELSE Apply(IF InRange(ws[1].idx) THEN [px EXCEPT ![ws[1].idx] = ws[1].color] ELSE px,
               Tail(ws))

(***************************************************************************)
(* The program, one action per step of the script.  pc is the position:    *)
(*   "validate"  line 147          "build"    lines 165-251                *)
(*   "while"     line 268          "for"      lines 270-346                *)
(*   "show"      line 349          "display"  lines 352-359                *)
(*   "sleep"     lines 361-363     "Done"     line 366                     *)
(*   "quit"      line 152          "raised"   an uncaught exception (exc)  *)
(***************************************************************************)

(* lines 147-152 *)
Validate ==
    /\ pc = "validate"
    /\ pc' = IF TooManyAirports THEN "quit" ELSE "build"
    /\ UNCHANGED <<cfg, feed, exc, conditionDict, stationList, m, disp, looplimit,
                   windCycle, displayTime, displayAirportCounter, numAirports, a, i,
                   pixels, strip, calls, shows, outputs, frames>>

(* Every station eligible, whatever the displayairports file lists. *)
DisplayEligible_All(id) == TRUE

(* lines 227-228, 250-251 *)
DisplayEligible(id) == displayairports.isNone \/ InSeq(id, displayairports.list)

(* One pass of the loop over the feed, lines 165-228. *)
FeedStep ==
    /\ pc = "build"
    /\ m <= Len(feed)
    /\ LET r == BuildRecord(feed[m])
       IN  IF r.exc # ""
           THEN /\ pc' = "raised"
                /\ exc' = r.exc
                /\ UNCHANGED <<conditionDict, stationList, m>>
           ELSE /\ conditionDict' = Store(conditionDict, r.val.stationId, r.val)
                /\ stationList' = IF DisplayEligible(r.val.stationId)
                                  THEN Append(stationList, r.val.stationId)
                                  ELSE stationList
                /\ m' = m + 1
                /\ UNCHANGED <<pc, exc>>
    /\ UNCHANGED <<cfg, feed, disp, looplimit, windCycle, displayTime,
                   displayAirportCounter, numAirports, a, i, pixels, strip, calls,
                   shows, outputs, frames>>

(* One pass of the loop over the airports file, lines 231-251. *)
EnsureEntry ==
    /\ pc = "build"
    /\ m > Len(feed)
    /\ a <= Len(airports)
    /\ LET ap == airports[a]
       IN  IF ap # T_NULL /\ ap \notin DOMAIN conditionDict
           THEN /\ conditionDict' = Store(conditionDict, ap, Placeholder(ap))
                /\ stationList' = IF DisplayEligible(ap)
                                  THEN Append(stationList, ap)
                                  ELSE stationList
           ELSE UNCHANGED <<conditionDict, stationList>>
    /\ a' = a + 1
    /\ UNCHANGED <<cfg, feed, pc, exc, m, disp, looplimit, windCycle, displayTime,
                   displayAirportCounter, numAirports, i, pixels, strip, calls,
                   shows, outputs, frames>>

(* lines 254-266 *)
Setup ==
    /\ pc = "build"
    /\ m > Len(feed)
    /\ a > Len(airports)
    /\ disp' = (displaymetar /\ ACTIVATE_EXTERNAL_METAR_DISPLAY)
    /\ looplimit' = LoopLimit
    /\ windCycle' = FALSE
    /\ displayTime' = 0
    /\ displayAirportCounter' = 0
    /\ numAirports' = Len(stationList)
    /\ pc' = "while"
    /\ UNCHANGED <<cfg, feed, exc, conditionDict, stationList, m, a, i, pixels,
                   strip, calls, shows, outputs, frames>>

(* lines 268-269, and line 366 when the loop ends *)
While ==
    /\ pc = "while"
    /\ IF looplimit > 0
       THEN /\ pc' = "for"
            /\ i' = 0
            /\ a' = 1
            /\ calls' = <<>>
       ELSE /\ pc' = "Done"
            /\ UNCHANGED <<i, a, calls>>
    /\ UNCHANGED <<cfg, feed, exc, conditionDict, stationList, m, disp, looplimit,
                   windCycle, displayTime, displayAirportCounter, numAirports,
                   pixels, strip, shows, outputs, frames>>

(* A NULL entry that leaves the LED index where it is. *)
AfterNull_Same(idx) == idx

(* line 272: the LED index after a NULL entry *)
AfterNull(idx) == idx + 1

(* lines 271-273 *)
SkipSlot ==
    /\ pc = "for"
    /\ a <= Len(airports)
    /\ airports[a] = T_NULL
    /\ i' = AfterNull(i)
    /\ a' = a + 1
    /\ UNCHANGED <<cfg, feed, pc, exc, conditionDict, stationList, m, disp, looplimit,
                   windCycle, displayTime, displayAirportCounter, numAirports,
                   pixels, strip, calls, shows, outputs, frames>>

(* A strip that flushes on every assignment. *)
AutoWrite_On == TRUE

(* line 131: the strip is created with auto_write=False *)
AutoWrite == FALSE

(* lines 275-333 *)
StationSlot ==
    /\ pc = "for"
    /\ a <= Len(airports)
    /\ airports[a] # T_NULL
    /\ LET color == SlotColor(conditionDict, airports[a], windCycle)
       IN  /\ calls' = Append(calls, Call("set", i, color, a, windCycle))
           /\ IF InRange(i)
              THEN /\ pixels' = [pixels EXCEPT ![i] = color]
                   /\ i' = i + 1
                   /\ a' = a + 1
                   /\ UNCHANGED <<pc, exc>>
              ELSE /\ pc' = "raised"
                   /\ exc' = "IndexError"
                   /\ UNCHANGED <<pixels, i, a>>
    /\ strip' = IF AutoWrite THEN pixels' ELSE strip
    /\ UNCHANGED <<cfg, feed, conditionDict, stationList, m, disp, looplimit,
                   windCycle, displayTime, displayAirportCounter, numAirports,
                   shows, outputs, frames>>

(* lines 336-346 *)
Legend ==
    /\ pc = "for"
    /\ a > Len(airports)
    /\ LET ws == LegendWrites(i + OFFSET_LEGEND_BY, windCycle)
           ex == Executed(ws)
       IN  /\ calls' = calls \o ex
           /\ pixels' = Apply(pixels, ex)
           /\ IF \A j \in 1..Len(ws) : InRange(ws[j].idx)
              THEN pc' = "show" /\ UNCHANGED exc
              ELSE pc' = "raised" /\ exc' = "IndexError"
    /\ strip' = IF AutoWrite THEN pixels' ELSE strip
    /\ UNCHANGED <<cfg, feed, conditionDict, stationList, m, disp, looplimit,
                   windCycle, displayTime, displayAirportCounter, numAirports, a, i,
                   shows, outputs, frames>>

(* line 349 *)
Show ==
    /\ pc = "show"
    /\ strip' = pixels
    /\ shows' = shows + 1
    /\ calls' = Append(calls, Call("show", 0, COLOR_CLEAR, 0, windCycle))
    /\ frames' = Append(frames, [px |-> pixels, wc |-> windCycle, writes |-> calls])
    /\ pc' = "display"
    /\ UNCHANGED <<cfg, feed, exc, conditionDict, stationList, m, disp, looplimit,
                   windCycle, displayTime, displayAirportCounter, numAirports, a, i,
                   pixels, outputs>>

(* A rotation that never leaves the station it is on. *)
NextCounter_Stay(c, n) == c

(* line 358 *)
NextCounter(c, n) == IF c < n - 1 THEN c + 1 ELSE 0

(* lines 352-359 *)
Display ==
    /\ pc = "display"
    /\ IF ~disp
       THEN /\ pc' = "sleep"
            /\ UNCHANGED <<exc, displayTime, displayAirportCounter, outputs>>
       ELSE IF displayTime <= DISPLAY_ROTATION_SPEED
       THEN IF displayAirportCounter < Len(stationList)
            THEN /\ outputs' = Append(outputs, stationList[displayAirportCounter + 1])
                 /\ displayTime' = displayTime + BLINK_SPEED
                 /\ pc' = "sleep"
                 /\ UNCHANGED <<exc, displayAirportCounter>>
            ELSE /\ pc' = "raised"
                 /\ exc' = "IndexError"
                 /\ UNCHANGED <<displayTime, displayAirportCounter, outputs>>
       ELSE /\ displayTime' = 0
            /\ displayAirportCounter' = NextCounter(displayAirportCounter, numAirports)
            /\ IF displayAirportCounter' < Len(stationList)
               THEN pc' = "sleep" /\ UNCHANGED exc
               ELSE pc' = "raised" /\ exc' = "IndexError"
            /\ UNCHANGED outputs
    /\ UNCHANGED <<cfg, feed, conditionDict, stationList, m, disp, looplimit,
                   windCycle, numAirports, a, i, pixels, strip, calls, shows,
                   frames>>

(* A phase that never flips. *)
NextWindCycle_Stuck(wc) == wc

(* line 362: windCycle = False if windCycle else True *)
NextWindCycle(wc) == ~wc

(* lines 361-363 *)
EndTick ==
    /\ pc = "sleep"
    /\ windCycle' = NextWindCycle(windCycle)
    /\ looplimit' = looplimit - 1
    /\ pc' = "while"
    /\ UNCHANGED <<cfg, feed, exc, conditionDict, stationList, m, disp,
                   displayTime, displayAirportCounter, numAirports, a, i,
                   pixels, strip, calls, shows, outputs, frames>>

Next ==
    \/ Validate
    \/ FeedStep
    \/ EnsureEntry
    \/ Setup
    \/ While
    \/ SkipSlot
    \/ StationSlot
    \/ Legend
    \/ Show
    \/ Display
    \/ EndTick

(***************************************************************************)
(* The runs explored.  The configuration block's own values (lines 46-90)  *)
(* are the centre; each family below varies some of them together with the *)
(* airports file or the feed.  Times are scaled down: the script's 300 s / *)
(* 1.0 s / 5.0 s become a few units.                                       *)
(***************************************************************************)
MaxAirports == 3
MaxLed == 11
MaxOffset == 1
MaxFeed == 2
MaxTotalTime == 6
MaxBlinkSpeed == 2
MaxRotation == 2
DefaultTotalTime == 2
DefaultRotation == 1
DEFAULT_LED_COUNT == 30
DEFAULT_WIND_BLINK_THRESHOLD == 15
DEFAULT_HIGH_WINDS_THRESHOLD == 25
DEFAULT_BLINK_SPEED == 1

KAAA == <<"K", "A", "A", "A">>
KBBB == <<"K", "B", "B", "B">>
KXYZ == <<"K", "X", "Y", "Z">>

SeqsUpTo(S, n) == UNION {[1..k -> S] : k \in 0..n}

DefaultCfg ==
    [LED_COUNT |-> DEFAULT_LED_COUNT,
     airports |-> <<KAAA, T_NULL, KBBB>>,
     displayairports |-> NoDisplayFile,
     displaymetar |-> FALSE,
     ACTIVATE_WINDCONDITION_ANIMATION |-> TRUE,
     ACTIVATE_LIGHTNING_ANIMATION |-> TRUE,
     FADE_INSTEAD_OF_BLINK |-> TRUE,
     WIND_BLINK_THRESHOLD |-> DEFAULT_WIND_BLINK_THRESHOLD,
     HIGH_WINDS_THRESHOLD |-> DEFAULT_HIGH_WINDS_THRESHOLD,
     ALWAYS_BLINK_FOR_GUSTS |-> FALSE,
     BLINK_SPEED |-> DEFAULT_BLINK_SPEED,
     BLINK_TOTALTIME_SECONDS |-> DefaultTotalTime,
     ACTIVATE_EXTERNAL_METAR_DISPLAY |-> FALSE,
     DISPLAY_ROTATION_SPEED |-> DefaultRotation,
     SHOW_LEGEND |-> TRUE,
     OFFSET_LEGEND_BY |-> 0]

(* A METAR element with only a station_id child. *)
BlankReport(id) ==
    [station_id |-> id,
     flight_category |-> NoElement,
     wind_dir_degrees |-> NoElement,
     wind_speed_kt |-> NoElement,
     wind_gust_kt |-> NoElement,
     temp_c |-> NoElement,
     dewpoint_c |-> NoElement,
     visibility_statute_mi |-> NoElement,
     altim_in_hg |-> NoElement,
     wx_string |-> NoElement,
     raw_text |-> NoElement,
     sky_condition |-> <<>>]

RawLTG == <<"K", "A", "A", "A", " ", "L", "T", "G", " ", "D", "S", "N", "T">>
RawTS == <<"K", "A", "A", "A", " ", "-", "T", "S", "R", "A">>
RawTSNO == <<"K", "X", "Y", "Z", " ", "T", "S", "N", "O", " ", "1", "2", "0", "0", "Z">>
RawIdTS == <<"K", "A", "T", "S", " ", "1", "2", "0", "0", "Z">>

(* Raw category, wind, gust and report texts of the decision family. *)
CategoryElements ==
    {El(T_VFR), El(T_MVFR), El(T_IFR), El(T_LIFR), El(T_NONE), NoElement,
     El(<<"U", "N", "K">>)}
WindElements == {El(<<"1", "0">>), El(<<"1", "5">>), El(<<"3", "0">>)}
GustElements == {NoElement, El(<<"2", "0">>), El(<<"3", "0">>)}
RawElements == {NoElement, El(RawLTG)}

DecisionReport(c, w, g, r) ==
    [BlankReport(El(KAAA)) EXCEPT !.flight_category = c, !.wind_speed_kt = w,
                                  !.wind_gust_kt = g, !.raw_text = r]

(* A VFR report with 30 kt wind and lightning in the raw text. *)
StormReport(id) ==
    [BlankReport(El(id)) EXCEPT !.flight_category = El(T_VFR),
                                !.wind_speed_kt = El(<<"3", "0">>),
                                !.raw_text = El(RawLTG)]

DecisionWorlds ==
    {[cfg |-> [DefaultCfg EXCEPT !.ACTIVATE_WINDCONDITION_ANIMATION = t[1],
                                 !.ACTIVATE_LIGHTNING_ANIMATION = t[2],
                                 !.FADE_INSTEAD_OF_BLINK = t[3],
                                 !.ALWAYS_BLINK_FOR_GUSTS = t[4],
                                 !.HIGH_WINDS_THRESHOLD = h],
      feed |-> <<DecisionReport(c, w, g, r)>>] :
        t \in BOOLEAN \X BOOLEAN \X BOOLEAN \X BOOLEAN,
        h \in {-1, DEFAULT_HIGH_WINDS_THRESHOLD},
        c \in CategoryElements, w \in WindElements, g \in GustElements,
        r \in RawElements}

LayoutWorlds ==
    {[cfg |-> [DefaultCfg EXCEPT !.airports = l, !.LED_COUNT = n,
                                 !.SHOW_LEGEND = s, !.OFFSET_LEGEND_BY = o],
      feed |-> <<StormReport(KAAA)>>] :
        l \in SeqsUpTo({KAAA, KBBB, T_NULL}, MaxAirports), n \in 1..MaxLed,
        s \in BOOLEAN, o \in 0..MaxOffset}

LegendWorlds ==
    {[cfg |-> [DefaultCfg EXCEPT !.LED_COUNT = n, !.OFFSET_LEGEND_BY = o,
                                 !.ACTIVATE_WINDCONDITION_ANIMATION = t[1],
                                 !.ACTIVATE_LIGHTNING_ANIMATION = t[2],
                                 !.FADE_INSTEAD_OF_BLINK = t[3],
                                 !.HIGH_WINDS_THRESHOLD = h],
      feed |-> <<StormReport(KAAA)>>] :
        n \in 1..MaxLed, o \in 0..MaxOffset,
        t \in BOOLEAN \X BOOLEAN \X BOOLEAN,
        h \in {-1, DEFAULT_HIGH_WINDS_THRESHOLD}}

DisplayFiles ==
    {NoDisplayFile, DisplayFile(<<KAAA>>), DisplayFile(<<KBBB, KAAA>>),
     DisplayFile(<<>>), DisplayFile(<<KXYZ>>)}

TimingWorlds ==
    {[cfg |-> [DefaultCfg EXCEPT !.BLINK_TOTALTIME_SECONDS = tt, !.BLINK_SPEED = bs,
                                 !.ACTIVATE_WINDCONDITION_ANIMATION = t[1],
                                 !.ACTIVATE_LIGHTNING_ANIMATION = t[2],
                                 !.ACTIVATE_EXTERNAL_METAR_DISPLAY = t[3],
                                 !.displaymetar = t[4]],
      feed |-> <<StormReport(KAAA)>>] :
        tt \in 1..MaxTotalTime, bs \in 1..MaxBlinkSpeed,
        t \in BOOLEAN \X BOOLEAN \X BOOLEAN \X BOOLEAN}

DisplayWorlds ==
    {[cfg |-> [DefaultCfg EXCEPT !.BLINK_TOTALTIME_SECONDS = tt, !.BLINK_SPEED = bs,
                                 !.ACTIVATE_EXTERNAL_METAR_DISPLAY = TRUE,
                                 !.displaymetar = TRUE,
                                 !.DISPLAY_ROTATION_SPEED = r,
                                 !.displayairports = d],
      feed |-> <<StormReport(KAAA)>>] :
        tt \in 1..MaxTotalTime, bs \in 1..MaxBlinkSpeed, r \in 0..MaxRotation,
        d \in DisplayFiles}

(* Raw numeric field contents of the feed family. *)
FieldElements ==
    {NoElement, NoTextElement, El(<<>>), El(<<"a", "b", "c">>), El(<<"1", "2">>),
     El(<<"1", "2", ".", "5">>), El(<<"1", "3", ".", "5">>), El(<<"-", "0", ".", "4">>),
     El(<<"1", "0", "+">>), El(<<"i", "n", "f">>), El(<<"n", "a", "n">>)}

(* A VFR report for KAAA whose numeric children all hold e. *)
FieldReport(e) ==
    [BlankReport(El(KAAA)) EXCEPT !.flight_category = El(T_VFR),
                                  !.wind_speed_kt = e, !.wind_gust_kt = e,
                                  !.temp_c = e, !.dewpoint_c = e,
                                  !.visibility_statute_mi = e, !.altim_in_hg = e,
                                  !.wx_string = e, !.wind_dir_degrees = e,
                                  !.sky_condition =
                                      <<[sky_cover |-> Attr(<<"B", "K", "N">>),
                                         cloud_base_ft_agl |->
                                             IF e.found /\ e.hasText
                                             THEN Attr(e.text) ELSE NoAttr]>>]

FeedReports ==
    {FieldReport(e) : e \in FieldElements}
    \cup {DecisionReport(NoElement, El(<<"3", "0">>), El(<<"3", "0">>), El(RawLTG)),
          [BlankReport(El(KBBB)) EXCEPT !.flight_category = El(T_IFR),
                                        !.raw_text = El(RawTS)],
          [BlankReport(El(KXYZ)) EXCEPT !.flight_category = El(T_MVFR),
                                        !.raw_text = El(RawTSNO)],
          [BlankReport(NoElement) EXCEPT !.flight_category = El(T_LIFR),
                                         !.raw_text = El(RawIdTS)]}

FeedWorlds ==
    {[cfg |-> DefaultCfg, feed |-> f] : f \in SeqsUpTo(FeedReports, MaxFeed)}

(* Reports that differ in their station id only, one of them for a station *)
(* that is not configured and one with no station_id child.                *)
IdReports ==
    {BlankReport(El(KAAA)), BlankReport(El(KBBB)), BlankReport(El(KXYZ)),
     BlankReport(NoElement)}

(* Feeds in any order, with repeated, missing and unconfigured stations,   *)
(* against airports files with and without a repeated line and every       *)
(* display-subset file, the secondary display enabled.                     *)
EligibleWorlds ==
    {[cfg |-> [DefaultCfg EXCEPT !.airports = l,
                                 !.displayairports = d,
                                 !.ACTIVATE_EXTERNAL_METAR_DISPLAY = TRUE,
                                 !.displaymetar = TRUE],
      feed |-> f] :
        l \in {<<KAAA, T_NULL, KBBB>>, <<KBBB, KAAA, KBBB>>},
        d \in DisplayFiles, f \in SeqsUpTo(IdReports, MaxFeed)}

(* Raw report texts: a station identifier of three or four characters,     *)
(* with or without "TS" or "LT" in it, followed by up to MaxRawBody        *)
(* characters of the words TS, TSNO and LTG.                               *)
MaxRawBody == 4

RawTexts ==
    {p \o b : p \in {KAAA, <<"K", "T", "S">>, <<"K", "L", "T">>},
              b \in SeqsUpTo({"T", "S", "N", "O"}, MaxRawBody)
                    \cup SeqsUpTo({"L", "T", "G"}, MaxRawBody)}

RawWorlds ==
    {[cfg |-> DefaultCfg,
      feed |-> <<[BlankReport(El(KAAA)) EXCEPT !.flight_category = El(T_VFR),
                                               !.raw_text = El(r)]>>] :
        r \in RawTexts}

Worlds ==
    DecisionWorlds \cup LayoutWorlds \cup LegendWorlds \cup TimingWorlds
    \cup DisplayWorlds \cup FeedWorlds \cup EligibleWorlds \cup RawWorlds

Init ==
    /\ \E w \in Worlds : cfg = w.cfg /\ feed = w.feed
    /\ pc = "validate"
    /\ exc = ""
    /\ conditionDict = <<>>
    /\ stationList = <<>>
    /\ m = 1
    /\ disp = FALSE
    /\ looplimit = 0
    /\ windCycle = FALSE
    /\ displayTime = 0
    /\ displayAirportCounter = 0
    /\ numAirports = 0
    /\ a = 1
    /\ i = 0
    /\ pixels = [j \in 0..(LED_COUNT - 1) |-> COLOR_CLEAR]
    /\ strip = [j \in 0..(LED_COUNT - 1) |-> COLOR_CLEAR]
    /\ calls = <<>>
    /\ shows = 0
    /\ outputs = <<>>
    /\ frames = <<>>

Spec == Init /\ [][Next]_vars

(***************************************************************************)
(* Properties.                                                             *)
(***************************************************************************)

(* The calls of the current tick that write an airport slot. *)
StationCalls == {j \in 1..Len(calls) : calls[j].op = "set" /\ calls[j].pos > 0}

(* The record the slot of call j was rendered from. *)
CallRecord(j) == conditionDict[airports[calls[j].pos]]

(* The feed loop and the airports loop have both run to their end. *)
RegistryBuilt ==
    \/ pc \in {"while", "for", "show", "display", "sleep", "Done"}
    \/ pc = "raised" /\ m > Len(feed)

NonSkipCount(l) == Cardinality({p \in 1..Len(l) : l[p] # T_NULL})

(* C1: a station whose record has flightCategory NONE is written the       *)
(* "none" colour on every tick, whatever its wind, gust and lightning      *)
(* fields, the phase, the toggles and the thresholds are.                  *)
C1_NoneShowsNoneColour ==
    \A j \in StationCalls :
        CallRecord(j).flightCategory = T_NONE => calls[j].color = COLOR_NONE

(* A NONE record with high wind and lightning, written in the wind phase   *)
(* of the second tick with both animations and the high-wind threshold on. *)
C1_Witness ==
    \E j \in StationCalls :
        /\ CallRecord(j).flightCategory = T_NONE
        /\ CallRecord(j).lightning
        /\ CallRecord(j).windSpeed >= DEFAULT_HIGH_WINDS_THRESHOLD
        /\ ACTIVATE_WINDCONDITION_ANIMATION /\ ACTIVATE_LIGHTNING_ANIMATION
        /\ HIGH_WINDS_THRESHOLD # -1
        /\ calls[j].wc /\ shows >= 1
        /\ calls[j].color = COLOR_NONE

FadeColors == {COLOR_VFR_FADE, COLOR_MVFR_FADE, COLOR_IFR_FADE, COLOR_LIFR_FADE}
RealCategories == {T_VFR, T_MVFR, T_IFR, T_LIFR}

(* C2: a station is written the lightning colour only while windCycle is   *)
(* false and a wind-effect colour (high-wind, fade, off for blink) only    *)
(* while windCycle is true, and the high-wind colour only for a station    *)
(* that is also windy.                                                     *)
C2_LightningAndWindPhases ==
    \A j \in StationCalls :
        LET c == CallRecord(j)
            col == calls[j].color
        IN  /\ col = COLOR_LIGHTNING => ~calls[j].wc
            /\ col \in FadeColors \cup {COLOR_HIGH_WINDS} => calls[j].wc
            /\ (col = COLOR_CLEAR /\ c.flightCategory \in RealCategories) => calls[j].wc
            /\ col = COLOR_HIGH_WINDS =>
                   /\ ACTIVATE_WINDCONDITION_ANIMATION
                   /\ c.windSpeed >= WIND_BLINK_THRESHOLD \/ c.windGust

(* The second tick of a station with lightning and high wind: the strip    *)
(* still shows the lightning frame of tick 1 while the buffer receives the *)
(* high-wind colour.                                                       *)
C2_Witness ==
    \E j \in StationCalls :
        /\ calls[j].color = COLOR_HIGH_WINDS
        /\ calls[j].wc
        /\ CallRecord(j).lightning /\ ACTIVATE_LIGHTNING_ANIMATION
        /\ shows = 1
        /\ strip[calls[j].idx] = COLOR_LIGHTNING

(* C3: every pixel write of a run that passed the start-up validation,     *)
(* station or legend, uses an index in [0, LED_COUNT).                     *)
C3_WritesInRange ==
    \A j \in 1..Len(calls) :
        calls[j].op = "set" => calls[j].idx \in 0..(LED_COUNT - 1)

(* C4: when the non-skip airports outnumber the LEDs the run ends at the   *)
(* validation: no pixel is written and show() is never called.             *)
C4_TooManyAirportsQuits ==
    NonSkipCount(airports) > LED_COUNT =>
        /\ pc \in {"validate", "quit"}
        /\ calls = <<>>
        /\ shows = 0
        /\ \A j \in DOMAIN pixels : pixels[j] = COLOR_CLEAR /\ strip[j] = COLOR_CLEAR

C4_Witness == pc = "quit" /\ NonSkipCount(airports) > LED_COUNT

Animated ==
    ACTIVATE_WINDCONDITION_ANIMATION \/ ACTIVATE_LIGHTNING_ANIMATION
    \/ ACTIVATE_EXTERNAL_METAR_DISPLAY

(* C5 as stated: a run that reaches Done has flushed exactly               *)
(* ceil(totalBlinkSeconds / blinkSpeedSeconds) frames when an animation or *)
(* the display is enabled, and exactly 1 otherwise.                        *)
C5_CeilTicks ==
    pc = "Done" =>
        shows = IF Animated
                THEN (BLINK_TOTALTIME_SECONDS + BLINK_SPEED - 1) \div BLINK_SPEED
                ELSE 1

(* n is the quotient t / s rounded to the nearest integer, ties to even. *)
IsNearestEven(n, t, s) ==
    LET diff == IF n * s >= t THEN n * s - t ELSE t - n * s
    IN  2 * diff < s \/ (2 * diff = s /\ n % 2 = 0)

(* C5 amended: a run that reaches Done has flushed exactly the quotient    *)
(* rounded to the nearest integer (ties to even) when an animation or the  *)
(* display is enabled, exactly 1 otherwise; the remaining tick count never *)
(* goes below zero and, with the frames flushed, adds up to that budget at *)
(* every loop test.                                                        *)
C5_RoundedTicks ==
    /\ pc = "Done" =>
          IF Animated
          THEN IsNearestEven(shows, BLINK_TOTALTIME_SECONDS, BLINK_SPEED)
          ELSE shows = 1
    /\ pc \in {"while", "Done"} =>
          /\ looplimit >= 0
          /\ IF Animated
             THEN IsNearestEven(shows + looplimit, BLINK_TOTALTIME_SECONDS, BLINK_SPEED)
             ELSE shows + looplimit = 1

(* A tie, 5 / 2, ends after 2 frames. *)
C5_Witness ==
    /\ pc = "Done" /\ Animated
    /\ BLINK_TOTALTIME_SECONDS = 5 /\ BLINK_SPEED = 2
    /\ shows = 2

(* C6: safe_text, safe_int and safe_float never raise, whatever a raw      *)
(* field holds (absent, no text, empty, non-numeric, fractional, "inf",    *)
(* "nan"): no exception escapes the feed loop, so the run is not aborted   *)
(* before the first tick by a data-quality fault.                          *)
C6_NormalizersTotal == ~(pc = "raised" /\ m <= Len(feed))

(* No METAR element of the feed names the airport. *)
AbsentFromFeed(ap) ==
    \A j \in 1..Len(feed) :
        ~(feed[j].station_id.found /\ feed[j].station_id.hasText
          /\ feed[j].station_id.text = ap)

Zeroed(c) ==
    /\ c.windSpeed = 0 /\ c.windGustSpeed = 0 /\ c.windGust = FALSE
    /\ c.vis = 0 /\ c.tempC = 0 /\ c.dewpointC = 0
    /\ c.altimHg.k = "fin" /\ c.altimHg.n = 0
    /\ c.lightning = FALSE
    /\ c.obs = <<>> /\ c.skyConditions = <<>>

(* C7: once the registry is built every non-skip airport has its record;   *)
(* for an airport absent from the feed it is the NONE record with zeroed   *)
(* fields, and that airport's slot is written the "none" colour.           *)
C7_AbsentAirportIsPlaceholder ==
    RegistryBuilt =>
        /\ \A p \in 1..Len(airports) :
               airports[p] # T_NULL =>
                   /\ airports[p] \in DOMAIN conditionDict
                   /\ conditionDict[airports[p]].stationId = airports[p]
                   /\ AbsentFromFeed(airports[p]) =>
                          /\ conditionDict[airports[p]].flightCategory = T_NONE
                          /\ conditionDict[airports[p]].windDir = <<>>
                          /\ Zeroed(conditionDict[airports[p]])
        /\ \A j \in StationCalls :
               AbsentFromFeed(airports[calls[j].pos]) => calls[j].color = COLOR_NONE

(* KBBB, absent from a feed that reports KAAA, written "none" on tick 2. *)
C7_Witness ==
    /\ RegistryBuilt /\ shows >= 1
    /\ ~AbsentFromFeed(KAAA) /\ AbsentFromFeed(KBBB)
    /\ \E j \in StationCalls :
           airports[calls[j].pos] = KBBB /\ calls[j].color = COLOR_NONE

(* C8 as stated: every record whose flightCategory is NONE is zeroed. *)
C8_NoneIsZeroed ==
    \A id \in DOMAIN conditionDict :
        conditionDict[id].flightCategory = T_NONE => Zeroed(conditionDict[id])

(* Feed element j was stored under id with the category NONE. *)
FeedGaveNone(j, id) ==
    /\ safe_text(feed[j].station_id, T_UNKNOWN) = id
    /\ safe_text(feed[j].flight_category, T_NONE) = T_NONE

(* C8 amended: a record whose flightCategory is NONE is zeroed unless it   *)
(* was built from a feed report that has no flight_category (or the text   *)
(* NONE); such a record keeps the fields parsed from the report.           *)
C8_NoneZeroedUnlessFromFeed ==
    \A id \in DOMAIN conditionDict :
        conditionDict[id].flightCategory = T_NONE =>
            \/ Zeroed(conditionDict[id])
            \/ \E j \in 1..(m - 1) : FeedGaveNone(j, id)

(* A registry holding a NONE record with wind and lightning from the feed  *)
(* next to a zeroed placeholder.                                           *)
C8_Witness ==
    /\ RegistryBuilt
    /\ \E id \in DOMAIN conditionDict :
           /\ conditionDict[id].flightCategory = T_NONE
           /\ conditionDict[id].windSpeed = 30 /\ conditionDict[id].lightning
    /\ \E id \in DOMAIN conditionDict :
           /\ conditionDict[id].flightCategory = T_NONE
           /\ AbsentFromFeed(id) /\ Zeroed(conditionDict[id])

(* C9 as stated: skip markers consume no LED index, so the j-th non-skip   *)
(* airport is written at LED index j - 1.                                  *)
C9_SkipConsumesNoIndex ==
    \A j \in StationCalls :
        calls[j].idx = NonSkipCount(SubSeq(airports, 1, calls[j].pos)) - 1

(* C9 amended: no pixel is written for a skip marker, but every entry of   *)
(* the list, skip marker or not, takes one LED index: the airport at list  *)
(* position p is written at LED index p - 1, once per tick, and the LED of *)
(* a skip marker is never written.                                         *)
C9_IndexIsListPosition ==
    /\ \A j \in StationCalls :
           airports[calls[j].pos] # T_NULL /\ calls[j].idx = calls[j].pos - 1
    /\ pc \in {"for", "show", "display", "sleep"} =>
           \A p \in 1..Len(airports) :
               /\ p < a /\ airports[p] # T_NULL =>
                      Cardinality({j \in StationCalls : calls[j].pos = p}) = 1
               /\ airports[p] = T_NULL =>
                      /\ \A j \in 1..Len(calls) :
                             calls[j].op = "set" => calls[j].idx # p - 1
                      /\ p - 1 \in DOMAIN pixels => pixels[p - 1] = COLOR_CLEAR

(* An airport behind a skip marker, written at its list position. *)
C9_Witness ==
    \E j \in StationCalls :
        /\ calls[j].pos = 3 /\ calls[j].idx = 2
        /\ airports[2] = T_NULL /\ airports[1] # T_NULL
        /\ pc = "show"

(* The priority table of the decision engine. *)
TableColor(c, wc) ==
    LET windy == ACTIVATE_WINDCONDITION_ANIMATION /\ wc
                 /\ (c.windSpeed >= WIND_BLINK_THRESHOLD \/ c.windGust)
        highWinds == windy /\ HIGH_WINDS_THRESHOLD # -1
                     /\ (c.windSpeed >= HIGH_WINDS_THRESHOLD
                         \/ c.windGustSpeed >= HIGH_WINDS_THRESHOLD)
        lightningActive == ACTIVATE_LIGHTNING_ANIMATION /\ ~wc /\ c.lightning
        fc == c.flightCategory
        base == CASE fc = T_VFR -> COLOR_VFR [] fc = T_MVFR -> COLOR_MVFR
                  [] fc = T_IFR -> COLOR_IFR [] fc = T_LIFR -> COLOR_LIFR
        fade == CASE fc = T_VFR -> COLOR_VFR_FADE [] fc = T_MVFR -> COLOR_MVFR_FADE
                  [] fc = T_IFR -> COLOR_IFR_FADE [] fc = T_LIFR -> COLOR_LIFR_FADE
    IN  CASE lightningActive -> COLOR_LIGHTNING
          [] ~lightningActive /\ highWinds -> COLOR_HIGH_WINDS
          [] ~lightningActive /\ ~highWinds /\ windy ->
                 IF FADE_INSTEAD_OF_BLINK THEN fade ELSE COLOR_CLEAR
          [] OTHER -> base

(* C10: for a VFR, MVFR, IFR or LIFR record the colour written is the one  *)
(* the priority table gives (lightning, then high wind, then fade or off   *)
(* when windy, then the base colour); for a category that is none of these *)
(* and not NONE it is the off colour.                                      *)
C10_ColourFollowsTable ==
    \A j \in StationCalls :
        LET c == CallRecord(j)
        IN  /\ c.flightCategory \in RealCategories =>
                   calls[j].color = TableColor(c, calls[j].wc)
            /\ c.flightCategory \notin RealCategories \cup {T_NONE} =>
                   calls[j].color = COLOR_CLEAR

(* An IFR station with lightning and wind, written the lightning colour on *)
(* tick 1 in a configuration with fade mode and the high-wind colour off.  *)
C10_Witness ==
    \E j \in StationCalls :
        /\ CallRecord(j).flightCategory = T_IFR
        /\ CallRecord(j).lightning /\ ~calls[j].wc
        /\ calls[j].color = COLOR_LIGHTNING
        /\ CallRecord(j).windSpeed >= WIND_BLINK_THRESHOLD
        /\ ~FADE_INSTEAD_OF_BLINK /\ HIGH_WINDS_THRESHOLD = -1

(* s is an initial part of t. *)
IsPrefix(s, t) == Len(s) <= Len(t) /\ s = SubSeq(t, 1, Len(s))

(* C11: within one run two ticks with the same windCycle value make the    *)
(* same assignments (same index, same colour, in the same order) to the    *)
(* station and legend LEDs and flush the same frame, so the flushed frames *)
(* repeat with period 2; the assignments of the tick being rendered are an *)
(* initial part of those of every earlier tick of the same phase.          *)
C11_SamePhaseSameFrame ==
    /\ \A k, l \in 1..Len(frames) :
           frames[k].wc = frames[l].wc =>
               frames[k].writes = frames[l].writes /\ frames[k].px = frames[l].px
    /\ \A k \in 1..(Len(frames) - 2) : frames[k + 2] = frames[k]
    /\ \A k \in 1..Len(frames) :
           (pc \in {"for", "show"} /\ frames[k].wc = windCycle) =>
               IsPrefix(calls, frames[k].writes)

(* Three frames flushed, the first with a lightning flash, the second      *)
(* different from it, and the third tick's station write under way.        *)
C11_Witness ==
    /\ Len(frames) >= 3
    /\ \E j \in 1..Len(frames[1].writes) :
           frames[1].writes[j].pos > 0 /\ frames[1].writes[j].color = COLOR_LIGHTNING
    /\ frames[1].px # frames[2].px
    /\ frames[3].px = frames[1].px
    /\ pc = "for" /\ calls # <<>> /\ windCycle

(* C12: with the secondary display enabled the rotation index is, on every *)
(* tick, a valid position of the display-eligible list, and the display    *)
(* lookup never raises once a frame has been flushed: an empty             *)
(* display-eligible list never gets as far as rendering a tick.            *)
C12_DisplayLookupNeverFails ==
    /\ (disp /\ pc \in {"for", "show", "display", "sleep"}) =>
           displayAirportCounter \in 0..(Len(stationList) - 1)
    /\ ~(disp /\ pc = "raised" /\ exc = "IndexError" /\ shows >= 1)

(* The number of the tick in progress, counted from 1: the frames flushed  *)
(* so far, plus one until this tick's own frame is flushed.                *)
TickNumber == IF pc \in {"for", "show"} THEN shows + 1 ELSE shows

InTick == pc \in {"for", "show", "display", "sleep"}

WindEffectColors == {COLOR_HIGH_WINDS, COLOR_CLEAR} \cup FadeColors

(* C13: tick k is rendered with windCycle true exactly when k is even,     *)
(* tick 1 with windCycle false; every station write, legend write and      *)
(* flush of one tick sees the same windCycle; a lightning colour can be    *)
(* written on tick 1 and a wind-effect colour (off, fade, high wind) is    *)
(* written for a real category on even ticks only.                         *)
C13_PhaseIsTickParity ==
    /\ InTick => (windCycle <=> TickNumber % 2 = 0)
    /\ \A j \in 1..Len(calls) : InTick => calls[j].wc = windCycle
    /\ \A k \in 1..Len(frames) :
           /\ frames[k].wc <=> (k % 2 = 0)
           /\ \A j \in 1..Len(frames[k].writes) :
                  LET w == frames[k].writes[j]
                  IN  /\ w.wc = frames[k].wc
                      /\ (w.pos > 0 /\ w.color \in WindEffectColors
                          /\ conditionDict[airports[w.pos]].flightCategory
                                 \in RealCategories) => k >= 2 /\ k % 2 = 0
                      /\ (w.pos > 0 /\ w.color = COLOR_LIGHTNING) => k % 2 = 1

(* Lightning colour written to a station on tick 1, the high-wind colour   *)
(* to the same station on tick 2, and tick 3 being rendered in the         *)
(* lightning phase again.                                                  *)
C13_Witness ==
    /\ Len(frames) = 2 /\ pc = "show" /\ ~windCycle
    /\ \E j \in 1..Len(frames[1].writes) :
           /\ frames[1].writes[j].pos > 0
           /\ frames[1].writes[j].color = COLOR_LIGHTNING
           /\ frames[2].writes[j].color = COLOR_HIGH_WINDS

ShowCalls == {j \in 1..Len(calls) : calls[j].op = "show"}

Blank == [j \in 0..(LED_COUNT - 1) |-> COLOR_CLEAR]

RECURSIVE Distinct(_)
Distinct(s) ==
    IF s = <<>> THEN <<>>
    ELSE LET d == Distinct(SubSeq(s, 1, Len(s) - 1))
             x == s[Len(s)]
         IN  IF InSeq(x, d) THEN d ELSE Append(d, x)

(* The station named by the displayairports file, or by no file at all. *)
Listed(id) == cfg.displayairports.isNone \/ InSeq(id, cfg.displayairports.list)

(* The non-skip configured airports, each once, in airport-list order,     *)
(* restricted to the display-subset list when there is one.                *)
ConfiguredEligible ==
    LET Keep(ap) == ap # T_NULL /\ Listed(ap)
    IN  SelectSeq(Distinct(airports), Keep)

(* The station ids of the feed's reports, in feed order. *)
FeedIds == [j \in 1..Len(feed) |-> safe_text(feed[j].station_id, T_UNKNOWN)]

(* One entry per eligible report, in feed order; then the eligible         *)
(* configured airports the feed did not report, in airport-list order.     *)
RegistryOrder ==
    LET Absent(ap) == ap # T_NULL /\ Listed(ap) /\ ~InSeq(ap, FeedIds)
    IN  SelectSeq(FeedIds, Listed) \o SelectSeq(Distinct(airports), Absent)

(* C15 as stated: for every feed the display-eligible list is the non-skip *)
(* configured airports (restricted to the display subset), each exactly    *)
(* once, in airport-list order, and nothing else.                          *)
C15_ListInAirportOrder ==
    RegistryBuilt => stationList = ConfiguredEligible

(* C15: the display-eligible list holds one entry per eligible feed report *)
(* in feed order, followed by the eligible configured airports absent from *)
(* the feed in airport-list order; so every eligible non-skip configured   *)
(* airport is in it, and it is the airport-list order, each once, when the *)
(* feed reports exactly the configured airports, once each, in that order. *)
C15_ListInRegistryOrder ==
    RegistryBuilt =>
        /\ stationList = RegistryOrder
        /\ \A p \in 1..Len(airports) :
               (airports[p] # T_NULL /\ Listed(airports[p])) =>
                   InSeq(airports[p], stationList)
        /\ \A j \in 1..Len(stationList) : Listed(stationList[j])
        /\ (LET NonSkip(ap) == ap # T_NULL
            IN  FeedIds = SelectSeq(Distinct(airports), NonSkip))
               => stationList = ConfiguredEligible

(* A display-subset file listing KBBB then KAAA, a feed reporting KBBB     *)
(* before KAAA: the list is in feed order, not airport-list order.         *)
C15_Witness ==
    /\ RegistryBuilt /\ pc = "while"
    /\ ~cfg.displayairports.isNone
    /\ airports = <<KAAA, T_NULL, KBBB>>
    /\ stationList = <<KBBB, KAAA>>
    /\ Len(feed) = 2

(* C16: with the secondary display enabled, the display step of a tick     *)
(* does exactly one of two things: while elapsed <= the rotation time it   *)
(* renders the selected station once and adds the blink speed to elapsed;  *)
(* otherwise it renders nothing, resets elapsed to 0 and moves the         *)
(* selection to the next station, the last one followed by the first.  No  *)
(* other step of the loop touches the rotation state or renders.           *)
C16_RenderOrAdvance ==
    [][/\ (pc = "display" /\ disp) =>
              \/ /\ displayTime <= DISPLAY_ROTATION_SPEED
                 /\ displayAirportCounter < Len(stationList)
                 /\ outputs' = Append(outputs, stationList[displayAirportCounter + 1])
                 /\ displayTime' = displayTime + BLINK_SPEED
                 /\ displayAirportCounter' = displayAirportCounter
              \/ /\ displayTime > DISPLAY_ROTATION_SPEED
                 /\ Len(stationList) > 0
                 /\ outputs' = outputs
                 /\ displayTime' = 0
                 /\ displayAirportCounter' =
                        (displayAirportCounter + 1) % Len(stationList)
       /\ (pc \in {"while", "for", "show", "sleep"} \/ ~disp) =>
              UNCHANGED <<displayTime, displayAirportCounter, outputs>>
      ]_vars

(* The legend assignments among the sink calls ws. *)
LegendCalls(ws) ==
    LET IsLegend(c) == c.op = "set" /\ c.pos = 0
    IN  SelectSeq(ws, IsLegend)

(* The LED index of the first legend swatch. *)
LegendBase == Len(airports) + OFFSET_LEGEND_BY

BaseSwatchColor(n) ==
    CASE n = 1 -> COLOR_VFR [] n = 2 -> COLOR_MVFR [] n = 3 -> COLOR_IFR
      [] n = 4 -> COLOR_LIFR

(* The legend assignments lw are those of the swatches in S: swatch n at   *)
(* index base + n - 1, in increasing order, swatches 1-4 in the base       *)
(* colours.  With whole = FALSE lw may stop early.                         *)
LegendIs(lw, S, whole) ==
    LET Order == SelectSeq(<<1, 2, 3, 4, 5, 6, 7>>, LAMBDA n : n \in S)
    IN  /\ Len(lw) <= Len(Order)
        /\ whole => Len(lw) = Len(Order)
        /\ \A j \in 1..Len(lw) :
               /\ lw[j].idx = LegendBase + Order[j] - 1
               /\ Order[j] <= 4 => lw[j].color = BaseSwatchColor(Order[j])

(* The swatches the claim names. *)
ClaimedSwatches ==
    IF ~SHOW_LEGEND THEN {}
    ELSE {1, 2, 3, 4}
         \cup (IF ACTIVATE_LIGHTNING_ANIMATION THEN {5} ELSE {})
         \cup (IF ACTIVATE_WINDCONDITION_ANIMATION THEN {6} ELSE {})
         \cup (IF HIGH_WINDS_THRESHOLD # -1 THEN {7} ELSE {})

(* Swatch 7 only together with swatch 6. *)
WrittenSwatches ==
    IF ~SHOW_LEGEND THEN {}
    ELSE {1, 2, 3, 4}
         \cup (IF ACTIVATE_LIGHTNING_ANIMATION THEN {5} ELSE {})
         \cup (IF ACTIVATE_WINDCONDITION_ANIMATION THEN {6} ELSE {})
         \cup (IF ACTIVATE_WINDCONDITION_ANIMATION /\ HIGH_WINDS_THRESHOLD # -1
               THEN {7} ELSE {})

(* C17 as stated: every flushed tick wrote, from the index after the last  *)
(* slot plus the offset, swatches 1-4 always, swatch 5 iff lightning       *)
(* animation is on, swatch 6 iff wind animation is on and swatch 7 iff the *)
(* high-wind threshold is not -1, whether or not wind animation is on; and *)
(* no legend pixel with the legend off.                                    *)
C17_SeventhSwatchByThreshold ==
    \A k \in 1..Len(frames) :
        LegendIs(LegendCalls(frames[k].writes), ClaimedSwatches, TRUE)

(* C17: the same with swatch 7 written iff wind animation is on and the    *)
(* high-wind threshold is not -1.  The assignments are made in swatch      *)
(* order, so a tick not yet flushed, or ended by an index outside the      *)
(* strip, has made an initial part of them.                                *)
C17_SeventhSwatchNeedsWind ==
    /\ \A k \in 1..Len(frames) :
           LegendIs(LegendCalls(frames[k].writes), WrittenSwatches, TRUE)
    /\ LegendIs(LegendCalls(calls), WrittenSwatches, pc \in {"show", "display", "sleep"})
    /\ ~SHOW_LEGEND => LegendCalls(calls) = <<>>

(* A flushed legend with the high-wind threshold at 25, wind animation off *)
(* and lightning animation on: five swatches, no seventh.                  *)
C17_Witness ==
    /\ Len(frames) >= 1
    /\ SHOW_LEGEND /\ ~ACTIVATE_WINDCONDITION_ANIMATION
    /\ ACTIVATE_LIGHTNING_ANIMATION /\ HIGH_WINDS_THRESHOLD # -1
    /\ Len(LegendCalls(frames[1].writes)) = 5

(* The assignments to legend swatch n among the sink calls ws. *)
SwatchCalls(ws, n) ==
    {j \in 1..Len(ws) : ws[j].op = "set" /\ ws[j].pos = 0
                        /\ ws[j].idx = LegendBase + n - 1}

(* C18: with legend and lightning animation on, every flushed tick wrote   *)
(* swatch 5 in the lightning colour when windCycle was false (tick 1, 3,   *)
(* ...) and in the VFR colour when it was true: lightning colour on the    *)
(* swatch on exactly the ticks on which a station with the lightning flag  *)
(* and a real category was written the lightning colour.                   *)
C18_LegendFlashesWithStations ==
    \A k \in 1..Len(frames) :
        LET ws == frames[k].writes
        IN  \A j \in SwatchCalls(ws, 5) :
                /\ ws[j].color = IF ~frames[k].wc THEN COLOR_LIGHTNING ELSE COLOR_VFR
                /\ \A h \in 1..Len(ws) :
                       (/\ ws[h].pos > 0
                        /\ conditionDict[airports[ws[h].pos]].lightning
                        /\ conditionDict[airports[ws[h].pos]].flightCategory
                               \in RealCategories) =>
                           (ws[h].color = COLOR_LIGHTNING
                                <=> ws[j].color = COLOR_LIGHTNING)

(* sub occurs in s starting at the 0-based character offset o. *)
OccursAt(s, sub, o) ==
    /\ o + Len(sub) <= Len(s)
    /\ \A q \in 1..Len(sub) : s[o + q] = sub[q]

(* sub occurs in s starting at offset 4 or later. *)
OccursPastId(s, sub) == \E o \in 4..Len(s) : OccursAt(s, sub, o)

(* The raw text of feed report j, empty when it has none. *)
RawTextOf(j) == safe_text(feed[j].raw_text, <<>>)

(* Report j has been stored and no later stored report has its station id. *)
LastStored(j) ==
    /\ j \in 1..(m - 1)
    /\ \A h \in (j + 1)..(m - 1) : FeedIds[h] # FeedIds[j]

(* C19: the lightning flag of the record built from a report is true       *)
(* exactly when "LTG" or "TS" occurs in its raw text starting at offset 4  *)
(* or later and "TSNO" does not occur starting at offset 4 or later.       *)
C19_LightningHeuristic ==
    \A j \in 1..Len(feed) :
        LastStored(j) =>
            (conditionDict[FeedIds[j]].lightning <=>
                 /\ OccursPastId(RawTextOf(j), T_LTG) \/ OccursPastId(RawTextOf(j), T_TS)
                 /\ ~OccursPastId(RawTextOf(j), T_TSNO))

(* A stored record without the flag whose raw text has "TS" inside its     *)
(* first four characters and nowhere later.                                *)
C19_Witness ==
    /\ pc = "for" /\ LastStored(1)
    /\ ~conditionDict[FeedIds[1]].lightning
    /\ \E o \in 0..3 : OccursAt(RawTextOf(1), T_TS, o)
    /\ Len(RawTextOf(1)) > 5

(* Ticks the rotation spends on one station: the render ticks, elapsed     *)
(* 0, S, 2S, ... <= the rotation time, and the tick that moves on.         *)
TicksPerStation == DISPLAY_ROTATION_SPEED \div BLINK_SPEED + 2

(* C20: with the secondary display enabled and N >= 1 display-eligible     *)
(* stations, the station at list position j has been rendered by the end   *)
(* of tick (j - 1) * TicksPerStation + 1 and stations are first rendered   *)
(* in list order; so a run whose tick budget is at least                   *)
(* N * TicksPerStation reaches Done with every station rendered.           *)
C20_EveryStationRendered ==
    (disp /\ Len(stationList) >= 1) =>
        /\ IsPrefix(Distinct(outputs), Distinct(stationList))
        /\ pc \in {"sleep", "while", "Done"} =>
               \A j \in 1..Len(stationList) :
                   shows >= (j - 1) * TicksPerStation + 1 =>
                       InSeq(stationList[j], outputs)
        /\ (pc = "Done" /\ LoopLimit >= Len(stationList) * TicksPerStation) =>
               /\ \A j \in 1..Len(stationList) : InSeq(stationList[j], outputs)
               /\ Distinct(outputs) = Distinct(stationList)

(* Two stations, a rotation time of one blink: each is rendered on two     *)
(* ticks and the run ends after a budget of six ticks with both rendered.  *)
C20_Witness ==
    /\ pc = "Done" /\ disp
    /\ Len(stationList) = 2 /\ stationList[1] # stationList[2]
    /\ TicksPerStation = 3
    /\ LoopLimit = 6
    /\ outputs = <<stationList[1], stationList[1], stationList[2], stationList[2]>>

====
